---- MODULE Spec2Model ----
(***************************************************************************)
(* Model of "CARLA Scripts/open3d_lidar.py" (PointSAM).                    *)
(*                                                                         *)
(* Three specifications share the module:                                  *)
(*   Spec    - main(): setup inside the try block, the frame loop, the     *)
(*             finally block, interleaved with the sensor callback, which  *)
(*             runs on the simulator client's thread and stores positions  *)
(*             and colours with two separate assignments.  The point set   *)
(*             is represented by the lengths of its two sequences.         *)
(*   SpecSem - the actor-colour table and semantic_lidar_callback on       *)
(*             concrete record buffers.                                    *)
(*   SpecInt - lidar_callback on concrete (x, y, z, intensity) buffers.    *)
(***************************************************************************)
EXTENDS Integers, Sequences, FiniteSets, TLC

VARIABLES
    \* ---- main() and the sensor thread (Spec)
    pc,                   \* statement main() executes next
    bound,                \* local names of main() that are bound
    arg_record,           \* arg.record
    frame,                \* frame
    previous_num_points,  \* previous_num_points (None is modelled as -1)
    current_num_points,   \* current_num_points
    npoints,              \* len(point_list.points)
    ncolors,              \* len(point_list.colors)
    listening,            \* lidar.listen() is in effect
    pending,              \* measurements produced by world.tick(), not yet delivered
    cb_pc,                \* position of the callback: "idle" or "colors"
    cb_len,               \* len(int_color) of the callback in flight
    vis_calls,            \* add_geometry / update_geometry calls issued, in order
    teardown,             \* calls performed by the finally block, in order
    exc,                  \* exception that is propagating
    cause,                \* exception that made control enter the finally block
    left_loop,            \* the frame loop was entered and then left
    write_calls,          \* how many times write_point_cloud was called
    last_snap,            \* current_num_points of the iteration of the last returned write
    write_failed,         \* a write_point_cloud call raised
    torn_read,            \* the frame loop has read the point set with unequal lengths
    \* ---- the semantic pipeline (SpecSem)
    sem_pc,               \* "fill" before the loop of lines 206-209, then "listening"
    actor_colors,         \* actor_colors: actor id -> colour
    filled_colors,        \* actor_colors as lines 206-209 left it
    sem_buf,              \* records of the measurement delivered last
    sem_points,           \* point_list.points
    sem_colors,           \* point_list.colors
    sem_err,              \* the last callback raised IndexError
    sem_frames,           \* callbacks run so far
    \* ---- the intensity pipeline (SpecInt)
    int_buf,              \* rows of the measurement delivered last
    int_points,           \* point_list.points
    int_colors,           \* point_list.colors
    intensity_col         \* intensity_col of the last callback

mainVars == <<pc, bound, arg_record, frame, previous_num_points,
              current_num_points, npoints, ncolors, listening, pending,
              cb_pc, cb_len, vis_calls, teardown, exc, cause, left_loop,
              write_calls, last_snap, write_failed, torn_read>>

semVars == <<sem_pc, actor_colors, filled_colors, sem_buf, sem_points,
             sem_colors, sem_err, sem_frames>>

intVars == <<int_buf, int_points, int_colors, intensity_col>>

vars == <<mainVars, semVars, intVars>>

-----------------------------------------------------------------------------
(* Bounds *)

MaxFrame == 4          \* iterations of the frame loop that are explored
MaxPending == 1        \* measurements that may wait for delivery

(* Program constants *)

POINT_DIFF_THRESHOLD == 100

None == -1

\* Point counts a decoded measurement may have (len of the decoder's output).
SensorCounts == {500, 550, 600, 650}

SetupPcs == {"get_settings", "get_tm", "spawn_vehicle", "spawn_lidar",
             "listen", "create_vis", "create_window", "init_loop"}

LoopPcs == {"add", "update", "count", "cmp", "write", "prev", "poll",
            "tick", "inc"}

TeardownPcs == {"td_settings", "td_tm", "td_vehicle", "td_lidar", "td_vis"}

Abs(n) == IF n < 0 THEN -n ELSE n

-----------------------------------------------------------------------------
(* The class palette.  Colours are kept as 8-bit channel triples: dividing  *)
(* by 255.0 preserves equality of colours, and equality with black is all   *)
(* that the code looks at.                                                  *)

Black == <<0, 0, 0>>

LABEL_COLORS_RGB == <<
    <<255, 255, 255>>, <<128, 64, 128>>, <<244, 35, 232>>, <<70, 70, 70>>,
    <<102, 102, 156>>, <<100, 40, 40>>, <<153, 153, 153>>, <<250, 170, 30>>,
    <<220, 220, 0>>, <<107, 142, 35>>, <<145, 170, 100>>, <<70, 130, 180>>,
    <<220, 20, 60>>, <<255, 0, 0>>, <<0, 0, 142>>, <<0, 60, 100>>,
    <<0, 80, 100>>, <<0, 0, 230>>, <<119, 11, 32>>, <<81, 0, 81>>,
    <<110, 190, 160>>, <<170, 120, 50>>, <<55, 90, 80>>, <<45, 60, 150>>,
    <<157, 234, 50>>, <<81, 0, 81>>, <<150, 100, 100>>, <<230, 150, 140>>,
    <<180, 165, 180>> >>

\* LABEL_COLORS[t] = [0.0, 0.0, 0.0] for these class tags t
DisabledTags == {0, 1, 2, 10, 11, 24, 26, 27}

\* The palette after the assignments of lines 70-77; class tag t is entry t + 1.
LABEL_COLORS ==
    [i \in 1..Len(LABEL_COLORS_RGB) |->
        IF (i - 1) \in DisabledTags THEN Black ELSE LABEL_COLORS_RGB[i]]

-----------------------------------------------------------------------------
(* semantic_lidar_callback                                                 *)

MaxRecords == 2        \* records of one measurement
MaxDecodes == 2        \* callbacks that are explored

\* Records (x, y, z, ObjIdx, ObjTag) a measurement is made of; CosAngle is
\* not used by the callback.  Tag 14 is Car, tag 1 is Roads (disabled), tag
\* 29 is one past the palette.  Actors 7 and 9 may be in the actor table,
\* ObjIdx 0 is no actor.
SampleRecords == {
    [x |-> 1,  y |-> 2,  z |-> 3, ObjIdx |-> 0, ObjTag |-> 14],
    [x |-> -4, y |-> -5, z |-> 0, ObjIdx |-> 7, ObjTag |-> 1],
    [x |-> 6,  y |-> 0,  z |-> 1, ObjIdx |-> 9, ObjTag |-> 14],
    [x |-> 2,  y |-> 7,  z |-> 0, ObjIdx |-> 0, ObjTag |-> 1],
    [x |-> 3,  y |-> 1,  z |-> 2, ObjIdx |-> 7, ObjTag |-> 29] }

SeqsUpTo(S, n) == UNION {[1..k -> S] : k \in 0..n}

\* Colours np.random.random(3) may give an actor.
TableColors == {Black, <<51, 102, 204>>}

WorldActorIds == {7, 9}

\* points = np.array([data['x'], -data['y'], data['z']]).T
Positions(data) ==
    [i \in 1..Len(data) |-> <<data[i].x, -data[i].y, data[i].z>>]

\* LABEL_COLORS[labels] raises IndexError when a label is out of bounds
\* (labels are unsigned: there is no negative index).
IndexError(data) ==
    \E i \in 1..Len(data) : data[i].ObjTag >= Len(LABEL_COLORS)

\* int_color = LABEL_COLORS[labels]
ClassColors(data) ==
    [i \in 1..Len(data) |-> LABEL_COLORS[data[i].ObjTag + 1]]

RECURSIVE SortedSeq(_)
SortedSeq(S) ==
    IF S = {} THEN <<>>
    ELSE LET m == CHOOSE a \in S : \A b \in S : a <= b
         IN <<m>> \o SortedSeq(S \ {m})

\* np.unique(data['ObjIdx'])
UniqueIds(data) == SortedSeq({data[i].ObjIdx : i \in 1..Len(data)})

\* for actor_id in unique_actor_ids:
\*     if actor_id in actor_colors:
\*         int_color[data['ObjIdx'] == actor_id] = actor_colors[actor_id]
RECURSIVE Override(_, _, _, _)
Override(data, int_color, ids, table) ==
    IF ids = <<>> THEN int_color
    ELSE LET actor_id == Head(ids)
             next == IF actor_id \in DOMAIN table
                     THEN [i \in 1..Len(data) |->
                              IF data[i].ObjIdx = actor_id
                              THEN table[actor_id] ELSE int_color[i]]
                     ELSE int_color
         IN Override(data, next, Tail(ids), table)

\* mask = ~np.all(int_color == [0.0, 0.0, 0.0], axis=1)
Mask(int_color) ==
    [i \in 1..Len(int_color) |-> int_color[i] # Black]

\* a[mask]
RECURSIVE Compress(_, _)
Compress(a, mask) ==
    IF a = <<>> THEN <<>>
    ELSE (IF Head(mask) THEN <<Head(a)>> ELSE <<>>)
         \o Compress(Tail(a), Tail(mask))

\* The filter taken from the class colours, before the actor override.
SemanticDecode_maskfirst(data, table) ==
    LET mask == Mask(ClassColors(data))
        int_color == Override(data, ClassColors(data), UniqueIds(data), table)
    IN [points |-> Compress(Positions(data), mask),
        colors |-> Compress(int_color, mask)]

\* Lines 119-139 for a measurement whose labels are all inside the palette.
SemanticDecode(data, table) ==
    LET int_color == Override(data, ClassColors(data), UniqueIds(data), table)
        mask == Mask(int_color)
    IN [points |-> Compress(Positions(data), mask),
        colors |-> Compress(int_color, mask)]

\* main(), lines 203-209: every actor of the world gets a random colour.
FillActorColors ==
    /\ sem_pc = "fill"
    /\ \E ids \in SUBSET WorldActorIds :
          \E table \in [ids -> TableColors] :
              /\ actor_colors' = table
              /\ filled_colors' = table
    /\ sem_pc' = "listening"
    /\ UNCHANGED <<mainVars, intVars, sem_buf, sem_points, sem_colors,
                   sem_err, sem_frames>>

\* The callback with line 145 moved above the palette lookup.
SemanticLidarCallback_earlywrite ==
    /\ sem_pc = "listening"
    /\ sem_frames < MaxDecodes
    /\ \E data \in SeqsUpTo(SampleRecords, MaxRecords) :
          /\ sem_buf' = data
          /\ IF IndexError(data)
             THEN /\ sem_err' = TRUE
                  /\ sem_points' = Positions(data)
                  /\ sem_colors' = sem_colors
             ELSE /\ sem_err' = FALSE
                  /\ sem_points' = SemanticDecode(data, actor_colors).points
                  /\ sem_colors' = SemanticDecode(data, actor_colors).colors
    /\ sem_frames' = sem_frames + 1
    /\ UNCHANGED <<mainVars, intVars, sem_pc, actor_colors, filled_colors>>

\* The callback giving a colour to every instance id it has not seen.
SemanticLidarCallback_assign ==
    /\ sem_pc = "listening"
    /\ sem_frames < MaxDecodes
    /\ \E data \in SeqsUpTo(SampleRecords, MaxRecords) :
          /\ sem_buf' = data
          /\ actor_colors' =
                [id \in DOMAIN actor_colors \cup
                        {data[i].ObjIdx : i \in 1..Len(data)} |->
                    IF id \in DOMAIN actor_colors THEN actor_colors[id]
                    ELSE <<51, 102, 204>>]
          /\ IF IndexError(data)
             THEN /\ sem_err' = TRUE
                  /\ UNCHANGED <<sem_points, sem_colors>>
             ELSE /\ sem_err' = FALSE
                  /\ sem_points' = SemanticDecode(data, actor_colors).points
                  /\ sem_colors' = SemanticDecode(data, actor_colors).colors
    /\ sem_frames' = sem_frames + 1
    /\ UNCHANGED <<mainVars, intVars, sem_pc, filled_colors>>

\* One run of semantic_lidar_callback on the sensor thread.  An IndexError
\* at line 127 ends it before lines 145-146.
SemanticLidarCallback ==
    /\ sem_pc = "listening"
    /\ sem_frames < MaxDecodes
    /\ \E data \in SeqsUpTo(SampleRecords, MaxRecords) :
          /\ sem_buf' = data
          /\ IF IndexError(data)
             THEN /\ sem_err' = TRUE
                  /\ UNCHANGED <<sem_points, sem_colors>>
             ELSE /\ sem_err' = FALSE
                  /\ sem_points' = SemanticDecode(data, actor_colors).points
                  /\ sem_colors' = SemanticDecode(data, actor_colors).colors
    /\ sem_frames' = sem_frames + 1
    /\ UNCHANGED <<mainVars, intVars, sem_pc, actor_colors, filled_colors>>

SemIdle ==
    /\ sem_pc = "fill"
    /\ actor_colors = <<>>
    /\ filled_colors = <<>>
    /\ sem_buf = <<>>
    /\ sem_points = <<>>
    /\ sem_colors = <<>>
    /\ sem_err = FALSE
    /\ sem_frames = 0

-----------------------------------------------------------------------------
(* lidar_callback                                                          *)
(*                                                                         *)
(* A float is a record: k is "fin" for a finite value, whose v is the      *)
(* value in thousandths, and "nan", "+inf" or "-inf" otherwise.            *)

Fin(n) == [k |-> "fin", v |-> n]
NaN == [k |-> "nan", v |-> 0]
PosInf == [k |-> "+inf", v |-> 0]
NegInf == [k |-> "-inf", v |-> 0]

IsFinite(f) == f.k = "fin"

\* Intensities of the samples, in thousandths: 1.0, exp(-0.2), exp(-0.4),
\* exp(-0.8), and the non-positive 0.0 and -0.5.
SampleIntensities == {1000, 819, 670, 449, 0, -500}

\* ln of the positive sample intensities, in thousandths
LnMilli(n) ==
    CASE n = 1000 -> 0
      [] n = 819 -> -200
      [] n = 670 -> -400
      [] n = 449 -> -800

\* np.log: -inf at 0, nan below 0 (numpy warns and goes on)
NpLog(f) ==
    CASE f.k = "nan" -> NaN
      [] f.k = "+inf" -> PosInf
      [] f.k = "-inf" -> NaN
      [] f.k = "fin" -> IF f.v > 0 THEN Fin(LnMilli(f.v))
                        ELSE IF f.v = 0 THEN NegInf ELSE NaN

\* np.log(np.exp(-0.004 * 100)) = -0.4
LogAttenuation == -400

\* f / d for a finite d < 0
DivNeg(f, d) ==
    CASE f.k = "nan" -> NaN
      [] f.k = "+inf" -> NegInf
      [] f.k = "-inf" -> PosInf
      [] f.k = "fin" -> Fin((f.v * 1000) \div d)

\* 1.0 - f
OneMinus(f) ==
    CASE f.k = "nan" -> NaN
      [] f.k = "+inf" -> NegInf
      [] f.k = "-inf" -> PosInf
      [] f.k = "fin" -> Fin(1000 - f.v)

\* intensity_col = 1.0 - np.log(intensity) / np.log(np.exp(-0.004 * 100))
IntensityCol(intensity) ==
    OneMinus(DivNeg(NpLog(Fin(intensity)), LogAttenuation))

\* np.interp(t, VID_RANGE, VIRIDIS[:, c]).  VID_RANGE runs from 0.0 to 1.0:
\* below it np.interp gives the first entry of the ramp, above it the last,
\* and nan for nan.  A colour of the ramp is represented by the place of the
\* ramp it is taken from (the same place for the three channels).
NpInterp(t) ==
    CASE t.k = "nan" -> NaN
      [] t.k = "-inf" -> Fin(0)
      [] t.k = "+inf" -> Fin(1000)
      [] t.k = "fin" -> Fin(IF t.v < 0 THEN 0 ELSE IF t.v > 1000 THEN 1000 ELSE t.v)

\* Rows (x, y, z, intensity) of a measurement.
SampleRows ==
    {[x |-> p[1], y |-> p[2], z |-> p[3], intensity |-> i] :
        p \in {<<1, 2, 3>>, <<-4, 0, 5>>}, i \in SampleIntensities}

\* One run of lidar_callback on the sensor thread (lines 82-107).
LidarCallback ==
    \E data \in SeqsUpTo(SampleRows, MaxRecords) :
        LET col == [i \in 1..Len(data) |-> IntensityCol(data[i].intensity)]
        IN /\ int_buf' = data
           /\ intensity_col' = col
           /\ int_colors' = [i \in 1..Len(data) |->
                   <<NpInterp(col[i]), NpInterp(col[i]), NpInterp(col[i])>>]
           /\ int_points' = [i \in 1..Len(data) |->
                   <<-data[i].x, data[i].y, data[i].z>>]
           /\ UNCHANGED <<mainVars, semVars>>

IntIdle ==
    /\ int_buf = <<>>
    /\ int_points = <<>>
    /\ int_colors = <<>>
    /\ intensity_col = <<>>

-----------------------------------------------------------------------------
(* main(): setup statements of the try block *)

\* KeyboardInterrupt, which is not an Exception, passing by the cleanup.
EnterFinally_skipinterrupt(e) ==
    /\ pc' = IF e = "KeyboardInterrupt" THEN "done" ELSE "td_settings"
    /\ exc' = e
    /\ cause' = e
    /\ left_loop' = (pc \in LoopPcs)

\* Control leaves the try block with exception e and enters the finally block.
EnterFinally(e) ==
    /\ pc' = "td_settings"
    /\ exc' = e
    /\ cause' = e
    /\ left_loop' = (pc \in LoopPcs)

Setup(from, to, name) ==
    /\ pc = from
    /\ pc' = to
    /\ bound' = bound \cup name
    /\ UNCHANGED <<semVars, intVars, arg_record, frame, previous_num_points, current_num_points,
                   npoints, ncolors, pending, cb_pc, cb_len, vis_calls,
                   teardown, exc, cause, left_loop, write_calls, last_snap,
                   write_failed, torn_read>>

GetSettings ==
    /\ Setup("get_settings", "get_tm", {"original_settings"})
    /\ UNCHANGED listening

GetTrafficManager ==
    /\ Setup("get_tm", "spawn_vehicle", {"traffic_manager"})
    /\ UNCHANGED listening

SpawnVehicle ==
    /\ Setup("spawn_vehicle", "spawn_lidar", {"vehicle"})
    /\ UNCHANGED listening

SpawnLidar ==
    /\ Setup("spawn_lidar", "listen", {"lidar"})
    /\ UNCHANGED listening

Listen ==
    /\ Setup("listen", "create_vis", {"point_list"})
    /\ listening' = TRUE

CreateVisualizer ==
    /\ Setup("create_vis", "create_window", {"vis"})
    /\ UNCHANGED listening

CreateWindow ==
    /\ Setup("create_window", "init_loop", {})
    /\ UNCHANGED listening

InitLoop ==
    /\ pc = "init_loop"
    /\ pc' = "add"
    /\ frame' = 0
    /\ UNCHANGED <<semVars, intVars, bound, arg_record, previous_num_points, current_num_points,
                   npoints, ncolors, listening, pending, cb_pc, cb_len,
                   vis_calls, teardown, exc, cause, left_loop, write_calls,
                   last_snap, write_failed, torn_read>>

\* Any statement of the setup raises (a carla RuntimeError, an IndexError of
\* blueprint_library.filter(...)[0], an OSError of os.makedirs, ...).
SetupRaises ==
    /\ pc \in SetupPcs
    /\ EnterFinally("error")
    /\ UNCHANGED <<semVars, intVars, bound, arg_record, frame, previous_num_points,
                   current_num_points, npoints, ncolors, listening, pending,
                   cb_pc, cb_len, vis_calls, teardown, write_calls, last_snap,
                   write_failed, torn_read>>

-----------------------------------------------------------------------------
(* main(): the frame loop *)

\* Registration in the first iteration.
ShouldRegister_early(f) == f = 0

ShouldRegister(f) == f = 2

\* The frame loop reads point_list here: were the two sequences out of step?
Torn == torn_read \/ npoints # ncolors

AddGeometry ==
    /\ pc = "add"
    /\ frame < MaxFrame
    /\ vis_calls' = IF ShouldRegister(frame) THEN Append(vis_calls, "add")
                                             ELSE vis_calls
    /\ torn_read' = IF ShouldRegister(frame) THEN Torn ELSE torn_read
    /\ pc' = "update"
    /\ UNCHANGED <<semVars, intVars, bound, arg_record, frame, previous_num_points,
                   current_num_points, npoints, ncolors, listening, pending,
                   cb_pc, cb_len, teardown, exc, cause, left_loop, write_calls,
                   last_snap, write_failed>>

UpdateGeometry ==
    /\ pc = "update"
    /\ vis_calls' = Append(vis_calls, "update")
    /\ torn_read' = Torn
    /\ pc' = IF arg_record THEN "count" ELSE "poll"
    /\ UNCHANGED <<semVars, intVars, bound, arg_record, frame, previous_num_points,
                   current_num_points, npoints, ncolors, listening, pending,
                   cb_pc, cb_len, teardown, exc, cause, left_loop, write_calls,
                   last_snap, write_failed>>

ReadCount ==
    /\ pc = "count"
    /\ current_num_points' = npoints
    /\ torn_read' = Torn
    /\ pc' = "cmp"
    /\ UNCHANGED <<semVars, intVars, bound, arg_record, frame, previous_num_points, npoints,
                   ncolors, listening, pending, cb_pc, cb_len, vis_calls,
                   teardown, exc, cause, left_loop, write_calls, last_snap,
                   write_failed>>

\* The threshold test with >= for >.
ShouldWrite_ge(prev, cur) ==
    prev = None \/ Abs(cur - prev) >= POINT_DIFF_THRESHOLD

ShouldWrite(prev, cur) ==
    prev = None \/ Abs(cur - prev) > POINT_DIFF_THRESHOLD

Compare ==
    /\ pc = "cmp"
    /\ pc' = IF ShouldWrite(previous_num_points, current_num_points)
             THEN "write" ELSE "poll"
    /\ UNCHANGED <<semVars, intVars, bound, arg_record, frame, previous_num_points,
                   current_num_points, npoints, ncolors, listening, pending,
                   cb_pc, cb_len, vis_calls, teardown, exc, cause, left_loop,
                   write_calls, last_snap, write_failed, torn_read>>

\* o3d.io.write_point_cloud returns (its result is not looked at).
WriteReturns ==
    /\ pc = "write"
    /\ write_calls' = write_calls + 1
    /\ last_snap' = current_num_points
    /\ torn_read' = Torn
    /\ pc' = "prev"
    /\ UNCHANGED <<semVars, intVars, bound, arg_record, frame, previous_num_points,
                   current_num_points, npoints, ncolors, listening, pending,
                   cb_pc, cb_len, vis_calls, teardown, exc, cause, left_loop,
                   write_failed>>

\* o3d.io.write_point_cloud raises: nothing in the loop catches it.
WriteRaises ==
    /\ pc = "write"
    /\ write_calls' = write_calls + 1
    /\ write_failed' = TRUE
    /\ torn_read' = Torn
    /\ EnterFinally("error")
    /\ UNCHANGED <<semVars, intVars, bound, arg_record, frame, previous_num_points,
                   current_num_points, npoints, ncolors, listening, pending,
                   cb_pc, cb_len, vis_calls, teardown, last_snap>>

SetPrevious ==
    /\ pc = "prev"
    /\ previous_num_points' = current_num_points
    /\ pc' = "poll"
    /\ UNCHANGED <<semVars, intVars, bound, arg_record, frame, current_num_points, npoints,
                   ncolors, listening, pending, cb_pc, cb_len, vis_calls,
                   teardown, exc, cause, left_loop, write_calls, last_snap,
                   write_failed, torn_read>>

PollRender ==
    /\ pc = "poll"
    /\ pc' = "tick"
    /\ UNCHANGED <<semVars, intVars, bound, arg_record, frame, previous_num_points,
                   current_num_points, npoints, ncolors, listening, pending,
                   cb_pc, cb_len, vis_calls, teardown, exc, cause, left_loop,
                   write_calls, last_snap, write_failed, torn_read>>

\* world.tick() returns: the simulator has produced one more measurement.
TickReturns ==
    /\ pc = "tick"
    /\ pending < MaxPending
    /\ pending' = pending + 1
    /\ pc' = "inc"
    /\ UNCHANGED <<semVars, intVars, bound, arg_record, frame, previous_num_points,
                   current_num_points, npoints, ncolors, listening, cb_pc,
                   cb_len, vis_calls, teardown, exc, cause, left_loop, write_calls,
                   last_snap, write_failed, torn_read>>

\* world.tick() raises (time-out while waiting for the simulator).
TickRaises ==
    /\ pc = "tick"
    /\ EnterFinally("error")
    /\ UNCHANGED <<semVars, intVars, bound, arg_record, frame, previous_num_points,
                   current_num_points, npoints, ncolors, listening, pending,
                   cb_pc, cb_len, vis_calls, teardown, write_calls, last_snap,
                   write_failed, torn_read>>

NextFrame ==
    /\ pc = "inc"
    /\ frame' = frame + 1
    /\ pc' = "add"
    /\ UNCHANGED <<semVars, intVars, bound, arg_record, previous_num_points, current_num_points,
                   npoints, ncolors, listening, pending, cb_pc, cb_len,
                   vis_calls, teardown, exc, cause, left_loop, write_calls,
                   last_snap, write_failed, torn_read>>

\* Ctrl-C: KeyboardInterrupt is raised in the main thread, once, anywhere in
\* the try block.
Interrupt ==
    /\ pc \in SetupPcs \cup LoopPcs
    /\ EnterFinally("KeyboardInterrupt")
    /\ UNCHANGED <<semVars, intVars, bound, arg_record, frame, previous_num_points,
                   current_num_points, npoints, ncolors, listening, pending,
                   cb_pc, cb_len, vis_calls, teardown, write_calls, last_snap,
                   write_failed, torn_read>>

-----------------------------------------------------------------------------
(* main(): the finally block *)

\* One statement of the finally block: it evaluates the local `name`, which
\* raises UnboundLocalError when the try block never bound it.
Release(from, to, name) ==
    /\ pc = from
    /\ IF name \in bound
       THEN /\ teardown' = Append(teardown, name)
            /\ pc' = to
            /\ exc' = exc
       ELSE /\ teardown' = teardown
            /\ pc' = "done"
            /\ exc' = "UnboundLocalError"
    /\ UNCHANGED <<semVars, intVars, bound, arg_record, frame, previous_num_points,
                   current_num_points, npoints, ncolors, pending, cb_pc,
                   cb_len, vis_calls, cause, left_loop, write_calls,
                   last_snap, write_failed, torn_read>>

RestoreSettings ==
    /\ Release("td_settings", "td_tm", "original_settings")
    /\ UNCHANGED listening

TrafficManagerAsync ==
    /\ Release("td_tm", "td_vehicle", "traffic_manager")
    /\ UNCHANGED listening

DestroyVehicle ==
    /\ Release("td_vehicle", "td_lidar", "vehicle")
    /\ UNCHANGED listening

DestroyLidar ==
    /\ Release("td_lidar", "td_vis", "lidar")
    /\ listening' = (listening /\ "lidar" \notin bound)

DestroyWindow ==
    /\ Release("td_vis", "done", "vis")
    /\ UNCHANGED listening

-----------------------------------------------------------------------------
(* The sensor thread: lidar_callback / semantic_lidar_callback *)

\* point_list.points = ...   (n is the number of points the decoder produced)
CallbackWritePoints ==
    /\ listening
    /\ pending > 0
    /\ cb_pc = "idle"
    /\ \E n \in SensorCounts :
          /\ npoints' = n
          /\ cb_len' = n
    /\ pending' = pending - 1
    /\ cb_pc' = "colors"
    /\ UNCHANGED <<semVars, intVars, pc, bound, arg_record, frame, previous_num_points,
                   current_num_points, ncolors, listening, vis_calls,
                   teardown, exc, cause, left_loop, write_calls, last_snap,
                   write_failed, torn_read>>

\* point_list.colors = ...
CallbackWriteColors ==
    /\ cb_pc = "colors"
    /\ ncolors' = cb_len
    /\ cb_len' = 0
    /\ cb_pc' = "idle"
    /\ UNCHANGED <<semVars, intVars, pc, bound, arg_record, frame, previous_num_points,
                   current_num_points, npoints, listening, pending,
                   vis_calls, teardown, exc, cause, left_loop, write_calls,
                   last_snap, write_failed, torn_read>>

-----------------------------------------------------------------------------

Init ==
    /\ pc = "get_settings"
    /\ bound = {}
    /\ arg_record \in BOOLEAN
    /\ frame = 0
    /\ previous_num_points = None
    /\ current_num_points = 0
    /\ npoints = 0
    /\ ncolors = 0
    /\ listening = FALSE
    /\ pending = 0
    /\ cb_pc = "idle"
    /\ cb_len = 0
    /\ vis_calls = <<>>
    /\ teardown = <<>>
    /\ exc = "none"
    /\ cause = "none"
    /\ left_loop = FALSE
    /\ write_calls = 0
    /\ last_snap = None
    /\ write_failed = FALSE
    /\ torn_read = FALSE
    /\ SemIdle
    /\ IntIdle

Next ==
    \/ GetSettings \/ GetTrafficManager \/ SpawnVehicle \/ SpawnLidar
    \/ Listen \/ CreateVisualizer \/ CreateWindow \/ InitLoop \/ SetupRaises
    \/ AddGeometry \/ UpdateGeometry \/ ReadCount \/ Compare
    \/ WriteReturns \/ WriteRaises \/ SetPrevious \/ PollRender
    \/ TickReturns \/ TickRaises \/ NextFrame \/ Interrupt
    \/ RestoreSettings \/ TrafficManagerAsync \/ DestroyVehicle
    \/ DestroyLidar \/ DestroyWindow
    \/ CallbackWritePoints \/ CallbackWriteColors

Spec == Init /\ [][Next]_vars

MainIdle ==
    /\ pc = "get_settings"
    /\ bound = {}
    /\ arg_record = FALSE
    /\ frame = 0
    /\ previous_num_points = None
    /\ current_num_points = 0
    /\ npoints = 0
    /\ ncolors = 0
    /\ listening = FALSE
    /\ pending = 0
    /\ cb_pc = "idle"
    /\ cb_len = 0
    /\ vis_calls = <<>>
    /\ teardown = <<>>
    /\ exc = "none"
    /\ cause = "none"
    /\ left_loop = FALSE
    /\ write_calls = 0
    /\ last_snap = None
    /\ write_failed = FALSE
    /\ torn_read = FALSE

\* The semantic pipeline: the actor table is filled, then measurements are
\* delivered one after the other.
InitSem == MainIdle /\ SemIdle /\ IntIdle

NextSem == FillActorColors \/ SemanticLidarCallback

SpecSem == InitSem /\ [][NextSem]_vars

\* The intensity pipeline: measurements are delivered one after the other.
InitInt == MainIdle /\ SemIdle /\ IntIdle

NextInt == LidarCallback

SpecInt == InitInt /\ [][NextInt]_vars

-----------------------------------------------------------------------------
(* Properties of main() and of its interleaving with the sensor thread     *)
(* (checked under Spec)                                                    *)

TeardownOrder ==
    <<"original_settings", "traffic_manager", "vehicle", "lidar", "vis">>

IsPrefix(s, t) ==
    /\ Len(s) <= Len(t)
    /\ \A i \in 1..Len(s) : s[i] = t[i]

\* C1 as stated: the point set is registered exactly once and no
\* update_geometry call is issued before the add_geometry call, i.e. every
\* update in the call log has the registration somewhere before it.
C1_NoUpdateBeforeRegister ==
    /\ Cardinality({i \in DOMAIN vis_calls : vis_calls[i] = "add"}) <= 1
    /\ \A i \in DOMAIN vis_calls :
          vis_calls[i] = "update" =>
              \E j \in 1..(i - 1) : vis_calls[j] = "add"

\* C1: the point set is registered at most once, by the iteration with
\* frame = 2 and right before that iteration's update: the call log is
\* update, update, add, update, update, ...  The updates of the iterations
\* with frame 0 and 1 precede the registration, every later one follows it.
C1_RegisterAtFrameTwo ==
    /\ \A i \in DOMAIN vis_calls : (vis_calls[i] = "add") <=> (i = 3)
    /\ (pc \in LoopPcs \ {"add", "update"}) =>
           Len(vis_calls) = (IF frame >= 2 THEN frame + 2 ELSE frame + 1)

C1_Witness ==
    /\ Len(vis_calls) >= 5
    /\ vis_calls[3] = "add"
    /\ frame = 3

\* The point count the threshold test of line 276 is made against: the count
\* read in the iteration of the last snapshot.
SnapshotDue ==
    \/ last_snap = None
    \/ Abs(current_num_points - last_snap) > 100

\* C2: with recording enabled, the iteration goes on to write a snapshot if
\* and only if no snapshot was written before or the count just read differs
\* from the count of the iteration of the last snapshot by more than 100;
\* write_point_cloud is called from nowhere else; previous_num_points changes
\* only after a write, to the count of that write; with recording disabled
\* write_point_cloud is never called.
C2_RecordingThreshold ==
    [][ /\ (pc = "cmp" /\ pc' \in LoopPcs \ {"cmp"}) =>
               ((pc' = "write") <=> SnapshotDue)
        /\ (write_calls' # write_calls) =>
               (pc = "write" /\ arg_record /\ write_calls' = write_calls + 1)
        /\ (pc = "write" /\ pc' \in LoopPcs \ {"write"}) =>
               (write_calls' = write_calls + 1 /\ last_snap' = current_num_points)
        /\ (previous_num_points' # previous_num_points) =>
               (pc = "prev" /\ previous_num_points' = last_snap)
        /\ (~arg_record => write_calls' = 0)
      ]_vars

\* Snapshots at counts 0 and 500 were written, the count 600 (a difference of
\* exactly 100) was read and skipped.
C2_Witness ==
    /\ arg_record
    /\ pc = "poll"
    /\ write_calls = 2
    /\ last_snap = 500
    /\ previous_num_points = 500
    /\ current_num_points = 600

\* C3 as stated: whenever the frame loop reads the point set (add_geometry,
\* update_geometry, len(point_list.points), write_point_cloud), positions and
\* colours have the same length.
C3_EqualLengthAtReads == ~torn_read

\* C4 as stated: the step in which write_point_cloud raises leaves the frame
\* loop running: control goes on to poll_events / update_renderer.
C4_LoopSurvivesWriteFailure ==
    [][ (write_failed' /\ ~write_failed) => pc' = "poll" ]_vars

C10_TeardownAfterSetupFailure ==
    (pc = "done" /\ ~left_loop /\ cause = "error") =>
        /\ exc = "error"
        /\ teardown = SelectSeq(TeardownOrder, LAMBDA n : n \in bound)

-----------------------------------------------------------------------------
(* Properties of semantic_lidar_callback (checked under SpecSem)           *)

\* The colour C6 gives a record: the table's if its instance id is in the
\* table, the palette's for its class tag otherwise.
ResolvedColor(r, table) ==
    IF r.ObjIdx \in DOMAIN table THEN table[r.ObjIdx]
    ELSE LABEL_COLORS[r.ObjTag + 1]

\* The records C6 keeps, in buffer order.
KeptRecords(data, table) ==
    SelectSeq(data, LAMBDA r : ResolvedColor(r, table) # Black)

\* C6: after the callback has run on a buffer whose class tags are all inside
\* the palette, the point set is exactly the records whose resolved colour is
\* not black, in buffer order, each as (x, -y, z) with its resolved colour;
\* so there are at most as many points as records, as many colours as
\* positions, no black colour, and a record of a disabled class whose
\* instance id has a non-black table colour is among the points.
C6_SemanticDecode ==
    (sem_pc = "listening" /\ sem_frames > 0 /\ ~sem_err) =>
        LET kept == KeptRecords(sem_buf, actor_colors)
        IN /\ sem_points =
                  [i \in 1..Len(kept) |-> <<kept[i].x, -kept[i].y, kept[i].z>>]
           /\ sem_colors =
                  [i \in 1..Len(kept) |-> ResolvedColor(kept[i], actor_colors)]
           /\ Len(sem_points) <= Len(sem_buf)
           /\ Len(sem_points) = Len(sem_colors)
           /\ \A i \in 1..Len(sem_colors) : sem_colors[i] # Black
           /\ \A i \in 1..Len(sem_buf) :
                 ( /\ sem_buf[i].ObjTag \in DisabledTags
                   /\ sem_buf[i].ObjIdx \in DOMAIN actor_colors
                   /\ actor_colors[sem_buf[i].ObjIdx] # Black ) =>
                 \E j \in 1..Len(sem_points) :
                     /\ sem_points[j] =
                            <<sem_buf[i].x, -sem_buf[i].y, sem_buf[i].z>>
                     /\ sem_colors[j] = actor_colors[sem_buf[i].ObjIdx]

\* A road record (disabled class) of actor 7, whose table colour is not black,
\* is emitted; the road record of no actor that follows it is dropped.
C6_Witness ==
    /\ sem_pc = "listening"
    /\ ~sem_err
    /\ Len(sem_buf) = 2
    /\ sem_buf[1].ObjTag = 1 /\ sem_buf[1].ObjIdx = 7
    /\ sem_buf[2].ObjTag = 1 /\ sem_buf[2].ObjIdx = 0
    /\ sem_points = << <<-4, 5, 0>> >>
    /\ sem_colors = << <<51, 102, 204>> >>

HasBadTag(data) ==
    \E i \in 1..Len(data) : data[i].ObjTag >= 29

\* C8: a callback on a buffer with a class tag of 29 or more raises, and
\* point_list.points and point_list.colors stay what they were before it.
C8_OutOfRangeTag ==
    [][ (sem_frames' = sem_frames + 1 /\ HasBadTag(sem_buf')) =>
            /\ sem_err'
            /\ sem_points' = sem_points
            /\ sem_colors' = sem_colors
      ]_vars

\* The second callback raised on a record of class tag 29 and the point of
\* the first callback is still there.
C8_Witness ==
    /\ sem_frames = 2
    /\ sem_err
    /\ HasBadTag(sem_buf)
    /\ Len(sem_points) = 1
    /\ Len(sem_colors) = 1

\* C9: once lines 206-209 have filled the actor table, it stays as filled
\* (same keys, same colours) whatever is decoded, and every record of a
\* decoded buffer whose instance id is in the table with a colour that is not
\* black is emitted with the colour the id was given at the start.
C9_ActorTableStable ==
    sem_pc = "listening" =>
        /\ actor_colors = filled_colors
        /\ ~sem_err =>
              \A i \in 1..Len(sem_buf) :
                 ( /\ sem_buf[i].ObjIdx \in DOMAIN filled_colors
                   /\ filled_colors[sem_buf[i].ObjIdx] # Black ) =>
                 \E j \in 1..Len(sem_points) :
                     /\ sem_points[j] =
                            <<sem_buf[i].x, -sem_buf[i].y, sem_buf[i].z>>
                     /\ sem_colors[j] = filled_colors[sem_buf[i].ObjIdx]

\* Two measurements have been decoded; the second holds a record of actor 9,
\* which is in the table, and a record of an instance that is not.
C9_Witness ==
    /\ sem_frames = 2
    /\ ~sem_err
    /\ DOMAIN actor_colors = {9}
    /\ actor_colors[9] # Black
    /\ Len(sem_buf) = 2
    /\ sem_buf[1].ObjIdx = 9
    /\ sem_buf[2].ObjIdx = 0
    /\ Len(sem_colors) >= 1
    /\ sem_colors[1] = actor_colors[9]

-----------------------------------------------------------------------------
(* Properties of lidar_callback (checked under SpecInt)                    *)

\* C7 as stated: for every buffer, zero and negative intensities included,
\* the ramp index handed to np.interp and every channel of every emitted
\* colour are finite.
C7_FiniteRampIndex ==
    /\ \A i \in 1..Len(intensity_col) : IsFinite(intensity_col[i])
    /\ \A i \in 1..Len(int_colors) :
          \A c \in 1..3 : IsFinite(int_colors[i][c])

====
